---- MODULE Spec2Model ----
(***************************************************************************)
(* The Windows main loop of xi-win-shell (win_main.rs): RunLoop::run, the  *)
(* registration API of RunLoopHandle (add_handler, add_idle) and           *)
(* request_quit, together with the Win32 primitives run relies on          *)
(* (MsgWaitForMultipleObjectsEx, PeekMessageW / GetMessageW /              *)
(* DispatchMessageW, PostQuitMessage) as their documentation describes     *)
(* them.                                                                   *)
(*                                                                         *)
(* The shared RunLoopState lives in a RefCell.  Its borrow flag is the     *)
(* variable borrow; a borrow_mut() on a RefCell that is already borrowed   *)
(* panics, and the panic unwinds out of run (pc = "panicked").             *)
(*                                                                         *)
(* Callbacks are arbitrary closures.  A callback is modelled by the one    *)
(* call into this module it makes when invoked (or none), chosen at the    *)
(* invocation.                                                             *)
(***************************************************************************)
EXTENDS Integers, Sequences, FiniteSets

\* ------------------------------------------------------------ bounds
MaxListeners == 2       \* add_handler calls that are modelled
MaxIdle      == 2       \* add_idle calls that are modelled
MaxMsgs      == 1       \* messages other than WM_QUIT posted to the queue
MaxQuits     == 1       \* request_quit calls that are modelled
MaxSignals   == 2       \* signal events on the handles

Handles == {1, 2}       \* the HANDLE values the clients register

\* ------------------------------------------------------------ winapi values
\* WAIT_FAILED and INFINITE are 0xFFFFFFFF (u32).  TLC's integers end at 2^31 - 1,
\* which stands for it: run only compares res with WAIT_OBJECT_0 + len and with
\* WAIT_TIMEOUT, and the timeout with nothing.
WAIT_OBJECT_0 == 0
WAIT_TIMEOUT  == 258
WAIT_FAILED   == 2147483647
INFINITE      == 2147483647
WM_QUIT       == 0      \* the queue entry PostQuitMessage leaves

VARIABLES
    listeners,    \* RunLoopState.listeners: the HANDLE of each Listener, in order
    idle,         \* RunLoopState.idle: the queued idle callbacks (their ids), in order
    borrow,       \* the RefCell's borrow flag: "free" or "mut"
    pc,           \* where the thread is: before run, inside run, or after it
    handles,      \* run's local: the snapshot of the listeners' handles
    has_idle,     \* run's local
    res,          \* run's local: the result of MsgWaitForMultipleObjectsEx
    msg,          \* run's local: the message GetMessageW retrieved
    getres,       \* the result of the last GetMessageW
    idles,        \* run's local: what is left of the batch taken from idle
    msgq,         \* the thread's message queue: message ids > 0, and WM_QUIT
    signaled,     \* the handles that are signaled
    cbOp,         \* the call the running (or the last) callback makes
    nextIdle,     \* history: the id the next add_idle gives its callback
    nMsgs,        \* history: messages posted
    nQuits,       \* history: request_quit calls
    nSignals,     \* history: signal events
    idleLog,      \* history: the idle callbacks invoked, in order
    cbLog,        \* history: the listener callbacks invoked (0-based index), in order
    msgLog,       \* history: the messages dispatched, in order
    quietAtWait,  \* history: the last wait found no handle signaled, no message
    aheadOfQuit,  \* history: the messages queued ahead of the first WM_QUIT
    waitsSinceQuit, \* history: waits issued since the first request_quit (up to 2)
    preRun,       \* history: how many listeners were registered when run started
    sigBeforeQuit, \* history: the handles signaled before the first request_quit
    sigLog,       \* history: the handles signaled, in the order of their first signal
    clones,       \* the states the RunLoopHandles handed out refer to
    nRegistered,  \* history: add_handler and add_idle calls that returned
    iterCbs,      \* history: the listeners called in this iteration of the loop
    batch,        \* history: the idle batch taken in this iteration
    drained       \* history: this iteration's drain ended on an empty queue

vars == <<listeners, idle, borrow, pc, handles, has_idle, res, msg, getres, idles,
          msgq, signaled, cbOp, nextIdle, nMsgs, nQuits, nSignals, idleLog, cbLog,
          msgLog, quietAtWait, aheadOfQuit, waitsSinceQuit, preRun,
          sigBeforeQuit, sigLog, clones, nRegistered, iterCbs, batch, drained>>

runLocals == <<handles, has_idle, res, msg, getres, idles>>
waitHist  == <<quietAtWait, waitsSinceQuit>>
sigHist   == <<preRun, sigBeforeQuit, sigLog>>
regHist   == <<clones, nRegistered>>
iterHist  == <<iterCbs, batch, drained>>

\* ------------------------------------------------------------ helpers
Range(s) == {s[i] : i \in 1..Len(s)}

\* The largest element instead of the smallest.
Min_Largest(S) == CHOOSE x \in S : \A y \in S : x >= y

Min(S) == CHOOSE x \in S : \A y \in S : x <= y

\* The last n elements of the sequence s (all of s when it has fewer).
LastN(s, n) == IF n >= Len(s) THEN s ELSE SubSeq(s, Len(s) - n + 1, Len(s))

IsPrefix(s, t) == Len(s) <= Len(t) /\ \A i \in 1..Len(s) : s[i] = t[i]

\* The 0-based index of handle h in the listener list (h is registered once).
IxOf(h) == (CHOOSE i \in 1..Len(listeners) : listeners[i] = h) - 1

NoOp == [kind |-> "none", h |-> 0]

\* What a callback may do when it is invoked: nothing, or one call of the API.
Ops == {NoOp, [kind |-> "add_idle", h |-> 0], [kind |-> "request_quit", h |-> 0]}
       \cup {[kind |-> "add_handler", h |-> h] : h \in Handles}

\* The calls the bounds still allow; add_handler and add_idle are methods of
\* a RunLoopHandle, so they need one that get_handle handed out.
Allowed(op) ==
    CASE op.kind = "add_handler"  -> Len(listeners) < MaxListeners /\ clones # {}
      [] op.kind = "add_idle"     -> nextIdle <= MaxIdle /\ clones # {}
      [] op.kind = "request_quit" -> nQuits < MaxQuits
      [] OTHER                    -> TRUE

\* ------------------------------------------------------------ RunLoop::new
Init ==
    /\ listeners = <<>>
    /\ idle = <<>>
    /\ borrow = "free"
    /\ pc = "setup"
    /\ handles = <<>>
    /\ has_idle = FALSE
    /\ res = -1                 \* no wait has returned yet
    /\ msg = 0
    /\ getres = 1
    /\ idles = <<>>
    /\ msgq = <<>>
    /\ signaled = {}
    /\ cbOp = NoOp
    /\ nextIdle = 1
    /\ nMsgs = 0
    /\ nQuits = 0
    /\ nSignals = 0
    /\ idleLog = <<>>
    /\ cbLog = <<>>
    /\ msgLog = <<>>
    /\ quietAtWait = FALSE
    /\ aheadOfQuit = {}
    /\ waitsSinceQuit = 0
    /\ preRun = 0
    /\ sigBeforeQuit = {}
    /\ sigLog = <<>>
    /\ clones = {}
    /\ nRegistered = 0
    /\ iterCbs = <<>>
    /\ batch = <<>>
    /\ drained = FALSE

\* ------------------------------------------------------------ the API
\* The RunLoopState of the loop, the one RunLoop.handle refers to and run reads
\* (the variables listeners, idle and borrow).  Any other number is a state of
\* its own, which run never reads.
SharedState == 0

\* get_handle returning a handle to a copy of the state.
get_handle_Copy == SharedState + 1

\* RunLoop::get_handle: self.handle.clone(), a clone of the Rc: the state the
\* handle returned refers to.
get_handle == SharedState

\* RefCell::borrow_mut panics when the cell is already borrowed.
BorrowMutPanics == borrow # "free"

\* add_handler with the listener put at the front of the list.
add_handler_Front(h) ==
    listeners' = IF BorrowMutPanics THEN listeners ELSE <<h>> \o listeners

\* RunLoopHandle::add_handler
add_handler(h) ==
    listeners' = IF BorrowMutPanics THEN listeners ELSE Append(listeners, h)

\* add_idle with the callback put at the front of the queue.
add_idle_Front ==
    IF borrow # "free"
    THEN UNCHANGED <<idle, nextIdle>>
    ELSE idle' = <<nextIdle>> \o idle /\ nextIdle' = nextIdle + 1

\* RunLoopHandle::add_idle
add_idle ==
    IF BorrowMutPanics
    THEN UNCHANGED <<idle, nextIdle>>
    ELSE idle' = Append(idle, nextIdle) /\ nextIdle' = nextIdle + 1

\* request_quit: PostQuitMessage(0)
request_quit ==
    /\ msgq' = Append(msgq, WM_QUIT)
    /\ nQuits' = nQuits + 1
    /\ aheadOfQuit' = IF WM_QUIT \in Range(msgq) \/ nQuits > 0
                      THEN aheadOfQuit
                      ELSE {m \in Range(msgq) : m # WM_QUIT}

\* Whether the call op panics where it is made.
Panics(op) ==
    /\ op.kind \in {"add_handler", "add_idle"}
    /\ SharedState \in clones
    /\ BorrowMutPanics

\* A request_quit that ends run on the spot.
AfterCallback_QuitNow(op, next) ==
    IF Panics(op) THEN "panicked"
    ELSE IF op.kind = "request_quit" THEN "returned" ELSE next

\* Where run is once a callback that made the call op is over: the callback
\* unwinds run if the call panicked and returns to run otherwise, which goes on
\* at next (request_quit only posts the quit message).
AfterCallback(op, next) == IF Panics(op) THEN "panicked" ELSE next

\* The call a callback (or the client, before run) makes.  add_handler and
\* add_idle are methods of a RunLoopHandle, one of those get_handle handed out,
\* and act on the state that handle refers to (self.0).
Call(op) ==
    /\ Allowed(op)
    /\ IF op.kind \in {"add_handler", "add_idle"}
       THEN \E c \in clones :
               /\ IF op.kind = "add_handler" /\ c = SharedState
                  THEN add_handler(op.h) ELSE UNCHANGED listeners
               /\ IF op.kind = "add_idle" /\ c = SharedState
                  THEN add_idle ELSE UNCHANGED <<idle, nextIdle>>
               /\ nRegistered' = IF c = SharedState /\ BorrowMutPanics
                                 THEN nRegistered ELSE nRegistered + 1
       ELSE UNCHANGED <<listeners, idle, nextIdle, nRegistered>>
    /\ IF op.kind = "request_quit" THEN request_quit
                                   ELSE UNCHANGED <<msgq, nQuits, aheadOfQuit>>

\* ------------------------------------------------------------ before run
\* The client takes a handle.  get_handle borrows the RunLoop, which run borrows
\* mutably: it is called before run or after run has returned.  Only a call
\* that hands out a handle to a state not handed out before changes clones.
GetHandle ==
    /\ pc \in {"setup", "returned"}
    /\ clones' = clones \cup {get_handle}
    /\ clones' # clones
    /\ UNCHANGED <<listeners, idle, borrow, pc, runLocals, msgq, signaled, cbOp,
                   nextIdle, nMsgs, nQuits, nSignals, idleLog, cbLog, msgLog, waitHist,
                   aheadOfQuit, sigHist, nRegistered, iterHist>>

\* The client registers listeners and idle work, or asks to quit, before run.
Setup ==
    /\ pc = "setup"
    /\ \E op \in Ops \ {NoOp} : Call(op) /\ cbOp' = cbOp
    /\ UNCHANGED <<borrow, pc, runLocals, signaled, nMsgs, nSignals, idleLog, cbLog,
                   msgLog, waitHist, sigHist,
                   clones, iterHist>>

\* The client calls run.
StartRun ==
    /\ pc = "setup"
    /\ pc' = "top"
    /\ preRun' = Len(listeners)
    /\ UNCHANGED <<listeners, idle, borrow, runLocals, msgq, signaled, cbOp, nextIdle,
                   nMsgs, nQuits, nSignals, idleLog, cbLog, msgLog, waitHist,
                   aheadOfQuit, sigBeforeQuit, sigLog,
                   regHist, iterHist>>

Running == pc \notin {"returned", "panicked"}

\* ------------------------------------------------------------ the environment
\* Something outside the loop signals a handle that is not signaled.
Signal ==
    /\ Running
    /\ nSignals < MaxSignals
    /\ \E h \in Handles \ signaled :
          /\ signaled' = signaled \cup {h}
          /\ sigBeforeQuit' = IF nQuits = 0 THEN sigBeforeQuit \cup {h} ELSE sigBeforeQuit
          /\ sigLog' = IF h \in Range(sigLog) THEN sigLog ELSE Append(sigLog, h)
    /\ nSignals' = nSignals + 1
    /\ UNCHANGED <<listeners, idle, borrow, pc, runLocals, msgq, cbOp, nextIdle, nMsgs,
                   nQuits, idleLog, cbLog, msgLog, waitHist, aheadOfQuit, preRun,
                   regHist, iterHist>>

\* Something posts a message to the thread's queue.
PostMessage ==
    /\ Running
    /\ nMsgs < MaxMsgs
    /\ msgq' = Append(msgq, nMsgs + 1)
    /\ nMsgs' = nMsgs + 1
    /\ UNCHANGED <<listeners, idle, borrow, pc, runLocals, signaled, cbOp, nextIdle,
                   nQuits, nSignals, idleLog, cbLog, msgLog, waitHist, aheadOfQuit,
                   sigHist,
                   regHist, iterHist>>

\* ------------------------------------------------------------ RunLoop::run
\* The snapshot taken in the first iteration only.
Snapshot_Once == IF handles = <<>> THEN listeners ELSE handles

\* Lines 71-75: the handles of the listeners, copied under a shared borrow.
Snapshot == listeners

\* Line 76.
HasIdle == idle # <<>>

\* The timeout with its two cases exchanged.
Timeout_Swapped(hasIdle) == IF hasIdle THEN INFINITE ELSE 0

\* Line 80: the timeout handed to the wait.
Timeout(hasIdle) == IF hasIdle THEN 0 ELSE INFINITE

\* Top of the loop: snapshot the handles and look at the idle queue.
Top ==
    /\ pc = "top"
    /\ handles' = Snapshot
    /\ has_idle' = HasIdle
    /\ pc' = "wait"
    /\ iterCbs' = <<>>
    /\ batch' = <<>>
    /\ drained' = FALSE
    /\ UNCHANGED <<listeners, idle, borrow, res, msg, getres, idles, msgq, signaled,
                   cbOp, nextIdle, nMsgs, nQuits, nSignals, idleLog, cbLog, msgLog,
                   waitHist, aheadOfQuit, sigHist,
                   regHist>>

\* MsgWaitForMultipleObjectsEx(len, handles, timeout, QS_ALLEVENTS, 0).
\* The indices (1-based) of the snapshot whose handle is signaled.
SignaledIx == {i \in 1..Len(handles) : handles[i] \in signaled}

\* The array of handles may not hold the same handle twice: the wait fails then.
ValidArray == \A i, j \in 1..Len(handles) : handles[i] = handles[j] => i = j

\* What every return of the wait records.
Waited ==
    /\ pc = "wait"
    /\ pc' = "drain"
    /\ quietAtWait' = (SignaledIx = {} /\ msgq = <<>>)
    /\ waitsSinceQuit' = IF nQuits > 0
                         THEN Min({waitsSinceQuit + 1, 2}) ELSE waitsSinceQuit
    /\ UNCHANGED <<listeners, idle, borrow, handles, has_idle, msg, getres, idles,
                   msgq, cbOp, nextIdle, nMsgs, nQuits, nSignals, idleLog, cbLog,
                   msgLog, aheadOfQuit, sigHist,
                   regHist, iterHist>>

\* A handle of the snapshot is signaled: the wait returns the smallest such index
\* and the wait is satisfied for that handle.  (A handle that stays signaled after
\* a wait, such as a manual-reset event, is a handle signaled again: Signal.)
WaitObject ==
    /\ Waited
    /\ ValidArray
    /\ SignaledIx # {}
    /\ res' = WAIT_OBJECT_0 + (Min(SignaledIx) - 1)
    /\ signaled' = signaled \ {handles[Min(SignaledIx)]}

\* Input is available in the queue: the wait returns WAIT_OBJECT_0 + len.
WaitMessage ==
    /\ Waited
    /\ ValidArray
    /\ msgq # <<>>
    /\ res' = WAIT_OBJECT_0 + Len(handles)
    /\ UNCHANGED signaled

\* The time-out elapsed with nothing signaled and no input.  An INFINITE wait
\* has no time-out.
WaitTimedOut ==
    /\ Waited
    /\ ValidArray
    /\ Timeout(has_idle) # INFINITE
    /\ SignaledIx = {}
    /\ msgq = <<>>
    /\ res' = WAIT_TIMEOUT
    /\ UNCHANGED signaled

\* The wait fails (an invalid array of handles, a handle that was closed, ...).
WaitFailed ==
    /\ Waited
    /\ res' = WAIT_FAILED
    /\ UNCHANGED signaled

\* The drain ended without a look at the queue.
NoMessage_Unchecked(q) == TRUE

\* Lines 89-90: PeekMessageW(&mut msg, null, 0, 0, PM_NOREMOVE) returns 0: no
\* message is in the queue q.
NoMessage(q) == q = <<>>

\* Lines 89-92: PeekMessageW finds the queue empty, the drain ends.
PeekEmpty ==
    /\ pc = "drain"
    /\ NoMessage(msgq)
    /\ pc' = "check"
    /\ drained' = (msgq = <<>>)
    /\ UNCHANGED <<listeners, idle, borrow, runLocals, msgq, signaled, cbOp, nextIdle,
                   nMsgs, nQuits, nSignals, idleLog, cbLog, msgLog, waitHist,
                   aheadOfQuit, sigHist,
                   regHist, iterCbs, batch>>

\* The test of line 94 with only the error taken as the end.
GetFails_ErrorOnly(r) == r < 0

\* The test of line 94 with the bound off by one.
GetFails_OffByOne(r) == r <= 1

\* Line 94: run returns on WM_QUIT (0) and on an error (-1).
GetFails(r) == r <= 0

\* Line 95 leaving the drain (a break) instead of run.
AfterGet_Break(r) == IF GetFails(r) THEN "check" ELSE "dispatch_msg"

\* Lines 94-97: where run goes on the result r of GetMessageW: it returns, or
\* goes on to translate and dispatch the message.
AfterGet(r) == IF GetFails(r) THEN "returned" ELSE "dispatch_msg"

\* Lines 93-96: GetMessageW retrieves the head of the queue: 0 for WM_QUIT, a
\* positive value for any other message, or -1 when it fails.
GetMessageW ==
    /\ pc = "drain"
    /\ ~NoMessage(msgq)
    /\ \E r \in {IF Head(msgq) = WM_QUIT THEN 0 ELSE 1, -1} :
          /\ getres' = r
          /\ msg' = IF r = -1 THEN msg ELSE Head(msgq)
          /\ msgq' = IF r = -1 THEN msgq ELSE Tail(msgq)
          /\ pc' = AfterGet(r)
    /\ UNCHANGED <<listeners, idle, borrow, handles, has_idle, res, idles, signaled,
                   cbOp, nextIdle, nMsgs, nQuits, nSignals, idleLog, cbLog, msgLog,
                   waitHist, aheadOfQuit, sigHist,
                   regHist, iterHist>>

\* Lines 97-98: the message is delivered to its handler, which may call the API.
DispatchMessageW ==
    /\ pc = "dispatch_msg"
    /\ \E op \in Ops :
          /\ Call(op)
          /\ cbOp' = op
          /\ pc' = AfterCallback(op, "drain")
    /\ msgLog' = Append(msgLog, msg)
    /\ UNCHANGED <<borrow, runLocals, signaled, nMsgs, nSignals, idleLog, cbLog,
                   waitHist, sigHist,
                   clones, iterHist>>

\* The test of line 101 with a strict lower bound.
IsListener_Strict(r, len) == r > WAIT_OBJECT_0 /\ r < WAIT_OBJECT_0 + len

\* Line 101.
IsListener(r, len) == r >= WAIT_OBJECT_0 /\ r < WAIT_OBJECT_0 + len

\* The idle branch taken as a plain else.
IsTimeout_Else(r) == TRUE

\* Line 104.
IsTimeout(r) == r = WAIT_TIMEOUT

\* The index of line 102 taken one too far.
ListenerIx_Next(r) == r - WAIT_OBJECT_0 + 1

\* Line 102: let ix = (res - WAIT_OBJECT_0) as usize.
ListenerIx(r) == r - WAIT_OBJECT_0

\* Line 103, up to the call: borrow_mut() and listeners[ix].  The RefMut is a
\* temporary of the statement, so it lives until the callback has returned.
EnterListener ==
    /\ pc = "check"
    /\ IsListener(res, Len(handles))
    /\ LET ix == ListenerIx(res)
       IN  IF BorrowMutPanics \/ ix + 1 > Len(listeners)
           THEN pc' = "panicked" /\ UNCHANGED <<borrow, cbLog, cbOp, iterCbs>>
           ELSE /\ borrow' = "mut"
                /\ cbLog' = Append(cbLog, ix)
                /\ iterCbs' = Append(iterCbs, ix)
                /\ \E op \in Ops : Allowed(op) /\ cbOp' = op
                /\ pc' = "listener_cb"
    /\ UNCHANGED <<listeners, idle, runLocals, msgq, signaled, nextIdle, nMsgs, nQuits,
                   nSignals, idleLog, msgLog, waitHist, aheadOfQuit, sigHist,
                   regHist, batch, drained>>

\* Line 103, the call: the listener's callback runs and returns (or panics), and
\* the RefMut is dropped.
ListenerCallback ==
    /\ pc = "listener_cb"
    /\ Call(cbOp)
    /\ pc' = AfterCallback(cbOp, "top")
    /\ borrow' = "free"
    /\ UNCHANGED <<runLocals, signaled, cbOp, nMsgs, nSignals, idleLog, cbLog, msgLog,
                   waitHist, sigHist,
                   clones, iterHist>>

\* Line 105: mem::replace(&mut idle, Vec::new()): the batch taken and what is
\* left in the queue.
TakenBatch == idle

\* The batch copied instead of moved out.
LeftInQueue_Kept == idle

LeftInQueue == <<>>

TakeIdles ==
    /\ pc = "check"
    /\ ~IsListener(res, Len(handles))
    /\ IsTimeout(res)
    /\ IF BorrowMutPanics
       THEN pc' = "panicked" /\ UNCHANGED <<idle, idles, batch>>
       ELSE /\ idles' = TakenBatch
            /\ batch' = TakenBatch
            /\ idle' = LeftInQueue
            /\ pc' = "idle_loop"
    /\ UNCHANGED <<listeners, borrow, handles, has_idle, res, msg, getres, msgq,
                   signaled, cbOp, nextIdle, nMsgs, nQuits, nSignals, idleLog, cbLog,
                   msgLog, waitHist, aheadOfQuit, sigHist,
                   regHist, iterCbs, drained>>

\* The drain given up after any callback.
BatchDone_Early(b) == TRUE

\* Line 106: the for loop over the batch ends when no callback is left in b.
BatchDone(b) == b = <<>>

\* Lines 106-108: the next callback of the batch is called.
IdleCall ==
    /\ pc = "idle_loop"
    /\ ~BatchDone(idles)
    /\ \E op \in Ops :
          /\ Call(op)
          /\ cbOp' = op
          /\ pc' = AfterCallback(op, "idle_loop")
    /\ idleLog' = Append(idleLog, Head(idles))
    /\ idles' = Tail(idles)
    /\ UNCHANGED <<borrow, handles, has_idle, res, msg, getres, signaled, nMsgs,
                   nSignals, cbLog, msgLog, waitHist, sigHist,
                   clones, iterHist>>

\* Line 108: the batch is exhausted.
IdleDone ==
    /\ pc = "idle_loop"
    /\ BatchDone(idles)
    /\ pc' = "top"
    /\ UNCHANGED <<listeners, idle, borrow, runLocals, msgq, signaled, cbOp, nextIdle,
                   nMsgs, nQuits, nSignals, idleLog, cbLog, msgLog, waitHist,
                   aheadOfQuit, sigHist,
                   regHist, iterHist>>

\* Lines 101-109: the result is neither a listener's index nor WAIT_TIMEOUT.
NoDispatch ==
    /\ pc = "check"
    /\ ~IsListener(res, Len(handles))
    /\ ~IsTimeout(res)
    /\ pc' = "top"
    /\ UNCHANGED <<listeners, idle, borrow, runLocals, msgq, signaled, cbOp, nextIdle,
                   nMsgs, nQuits, nSignals, idleLog, cbLog, msgLog, waitHist,
                   aheadOfQuit, sigHist,
                   regHist, iterHist>>

Next ==
    \/ GetHandle
    \/ Setup
    \/ StartRun
    \/ Signal
    \/ PostMessage
    \/ Top
    \/ WaitObject
    \/ WaitMessage
    \/ WaitTimedOut
    \/ WaitFailed
    \/ PeekEmpty
    \/ GetMessageW
    \/ DispatchMessageW
    \/ EnterListener
    \/ ListenerCallback
    \/ TakeIdles
    \/ IdleCall
    \/ IdleDone
    \/ NoDispatch

Spec == Init /\ [][Next]_vars

TypeOK ==
    /\ pc \in {"setup", "top", "wait", "drain", "dispatch_msg", "check", "listener_cb",
               "idle_loop", "returned", "panicked"}
    /\ borrow \in {"free", "mut"}
    /\ Range(listeners) \subseteq Handles
    /\ Len(listeners) <= MaxListeners
    /\ Range(idle) \subseteq 1..MaxIdle
    /\ res \in Nat \cup {-1}
    /\ cbOp \in Ops

\* ------------------------------------------------------------ the claims
InCallback == pc \in {"listener_cb", "dispatch_msg", "idle_loop"}

\* C1: add_handler and add_idle can be called from inside any callback that run is
\* executing without failing, because run holds no mutable borrow of the
\* RunLoopState while it invokes a callback: no add_handler and no add_idle made
\* by a callback finds the RefCell borrowed and panics.
C1_ReentrantRegistrationSafe ==
    ~(InCallback /\ borrow # "free" /\ cbOp.kind \in {"add_handler", "add_idle"})
    /\ pc # "panicked"

\* C2: when a listener callback invoked by run calls add_idle, the new idle
\* callback is registered (queued behind the pending ones) and is not invoked in
\* that dispatch step; it waits in the queue for a later timeout iteration.
C2_ListenerAddsIdle ==
    [][(pc = "listener_cb" /\ pc' # "listener_cb" /\ cbOp.kind = "add_idle")
         => /\ idle' = Append(idle, nextIdle)
            /\ idleLog' = idleLog
            /\ pc' = "top"]_vars

\* C3: run never blocks while idle work is pending: a wait entered with an
\* INFINITE timeout finds the idle queue empty, and a wait entered with the idle
\* queue non-empty has timeout zero; hence every idle callback registered so far
\* has been invoked when run enters a wait that can block.
C3_NoBlockWithIdlePending ==
    pc = "wait" =>
        /\ (Timeout(has_idle) = INFINITE => idle = <<>>)
        /\ (idle # <<>> => Timeout(has_idle) = 0)
        /\ (Timeout(has_idle) = INFINITE => Range(idleLog) = 1..(nextIdle - 1))

\* C3 witness: after an idle drain whose callback registered more idle work, run
\* polls: it is at the wait with timeout zero and nothing signaled or queued.
C3_Witness ==
    /\ pc = "wait"
    /\ idle # <<>>
    /\ idleLog # <<>>
    /\ Timeout(has_idle) = 0
    /\ SignaledIx = {}
    /\ msgq = <<>>

\* C4: idle callbacks are invoked in the order add_idle registered them, within a
\* batch and across batches: the ids, given in registration order, appear in the
\* log of invocations in increasing order.
C4_IdleFifo ==
    \A i, j \in 1..Len(idleLog) : i < j => idleLog[i] < idleLog[j]

\* C4 witness: two idle callbacks have been invoked and the drain is over.
C4_Witness ==
    /\ Len(idleLog) >= 2
    /\ pc = "top"

\* C5: every idle callback is one-shot: it is invoked at most once, it is in
\* exactly one of the queue, the batch being drained and the log of invocations,
\* and the batch taken in a timeout iteration is invoked completely in it.
C5_IdleOneShot ==
    /\ \A i, j \in 1..Len(idleLog) : idleLog[i] = idleLog[j] => i = j
    /\ Range(idle) \cap (Range(idles) \cup Range(idleLog)) = {}
    /\ Range(idles) \cap Range(idleLog) = {}
    /\ Range(idle) \cup Range(idles) \cup Range(idleLog) = 1..(nextIdle - 1)
    /\ pc # "idle_loop" => idles = <<>>

\* C5 witness: no listener, one idle callback, a quit after the first idle drain:
\* run has returned and the callback ran once.
C5_Witness ==
    /\ pc = "returned"
    /\ getres = 0
    /\ listeners = <<>>
    /\ idleLog = <<1>>
    /\ nextIdle = 2

\* C6: idle callbacks are invoked only in an iteration whose wait returned
\* WAIT_TIMEOUT, that is, a poll at which no handle of the listeners was signaled
\* and no message was queued.
C6_IdleOnlyOnTimeout ==
    pc = "idle_loop" =>
        /\ res = WAIT_TIMEOUT
        /\ Timeout(has_idle) = 0
        /\ quietAtWait

\* C6 witness: an idle callback is about to be invoked while listeners are
\* registered and a handle has been signaled since the wait.
C6_Witness ==
    /\ pc = "idle_loop"
    /\ idles # <<>>
    /\ listeners # <<>>
    /\ cbLog # <<>>

C8_QuitWithinOneDrain ==
    /\ waitsSinceQuit <= 1
    /\ pc = "check" => WM_QUIT \notin Range(msgq)
    /\ (pc = "returned" /\ getres = 0) => aheadOfQuit \subseteq Range(msgLog)

\* C8 witness: an idle batch was drained, request_quit was called with a message
\* queued ahead of it, one wait followed and run has returned on the quit.
C8_Witness ==
    /\ pc = "returned"
    /\ getres = 0
    /\ aheadOfQuit # {}
    /\ waitsSinceQuit = 1
    /\ idleLog # <<>>

\* C9: run returns only in the message drain, on GetMessageW reading the quit (0)
\* or failing (-1): no wait outcome and no callback makes it return.
C9_ReturnOnlyInDrain ==
    [][(pc' = "returned" /\ pc # "returned")
         => /\ pc = "drain"
            /\ msgq # <<>>
            /\ getres' \in {0, -1}
            /\ (getres' = 0 => Head(msgq) = WM_QUIT)]_vars

\* C9 witness: run has returned on a read error, after a listener callback and
\* with no quit requested.
C9_Witness ==
    /\ pc = "returned"
    /\ getres = -1
    /\ nQuits = 0
    /\ cbLog # <<>>

\* C10: a failure of the composite wait is fatal to the loop: run issues no other
\* wait after a wait that returned WAIT_FAILED.
C10_WaitFailureFatal ==
    pc = "wait" => res # WAIT_FAILED

\* Two listeners, registered before run on the distinct handles a and b and no
\* other, and the signals: a, then b.
TwoListeners(a, b) ==
    /\ a # b
    /\ preRun = 2
    /\ Len(listeners) = 2
    /\ Range(listeners) = {a, b}
    /\ sigLog = <<a, b>>
    /\ nSignals = 2

\* C11 (as stated): with two listeners on distinct handles A and B, in either
\* registration order, and A signaled before B, callback-A is invoked before
\* callback-B and each at most once: the invocations so far are a prefix of
\* (callback-A, callback-B).
C11_SignalOrderIsCallbackOrder ==
    \A a, b \in Handles :
        TwoListeners(a, b) => IsPrefix(cbLog, <<IxOf(a), IxOf(b)>>)

\* C11 (amended): with two listeners on distinct handles A and B and A signaled
\* before B, each callback is invoked at most once, and callback-A is invoked
\* before callback-B when A was registered first (a wait at which both handles
\* are signaled reports the listener registered first, whatever the order of
\* the signals).
C11_RegistrationOrderDecides ==
    \A a, b \in Handles :
        TwoListeners(a, b) =>
            /\ \A i, j \in 1..Len(cbLog) : cbLog[i] = cbLog[j] => i = j
            /\ listeners = <<a, b>> => IsPrefix(cbLog, <<0, 1>>)

\* C11 witness: A registered first, A signaled then B, and both callbacks have
\* been invoked, callback-A first.
C11_Witness ==
    /\ TwoListeners(1, 2)
    /\ listeners = <<1, 2>>
    /\ cbLog = <<0, 1>>
    /\ pc = "top"

\* ------------------------------------------------------------ C12
\* C12: get_handle has no effect on the listener list or the idle queue (a fresh
\* loop has both empty) and every handle it returns refers to the one state run
\* reads: every registration made through a handle is in that state, so the
\* listeners and the idle callbacks registered so far are as many as the calls
\* of add_handler and add_idle that returned.
C12_HandlesShareState ==
    /\ clones \subseteq {SharedState}
    /\ nRegistered = Len(listeners) + (nextIdle - 1)
    /\ nRegistered = 0 => listeners = <<>> /\ idle = <<>>

C12_Witness ==
    /\ clones = {SharedState}
    /\ nRegistered >= 2
    /\ pc = "listener_cb"
    /\ idleLog # <<>>

\* ------------------------------------------------------------ C13
\* C13: an iteration of the loop does at most one unit of listener or idle work:
\* it calls at most one listener, and then the one whose index the wait
\* reported, and never both a listener and an idle batch; an iteration that
\* ends after the wait reported a listener has called that listener exactly
\* once.
C13_OneUnitPerIteration ==
    /\ Len(iterCbs) <= 1
    /\ ~(iterCbs # <<>> /\ batch # <<>>)
    /\ iterCbs # <<>> =>
           /\ IsListener(res, Len(handles))
           /\ iterCbs = <<res - WAIT_OBJECT_0>>
    /\ batch # <<>> => res = WAIT_TIMEOUT
    /\ (pc = "top" /\ IsListener(res, Len(handles))) =>
           iterCbs = <<res - WAIT_OBJECT_0>>

\* C13 witness: with idle work pending and two listeners, the wait reported the
\* second listener; its callback has run, alone, and the idle work still waits.
C13_Witness ==
    /\ pc = "top"
    /\ Len(handles) = 2
    /\ res = WAIT_OBJECT_0 + 1
    /\ iterCbs = <<1>>
    /\ idle # <<>>
    /\ batch = <<>>

\* ------------------------------------------------------------ C14
\* C14: in every iteration the drain of the message queue is over, ended by an
\* empty queue, before run acts on the result of the wait; a drain that read the
\* quit signal or an error ended run instead.
C14_DrainBeforeDispatch ==
    /\ pc \in {"check", "listener_cb", "idle_loop"} => drained
    /\ (iterCbs # <<>> \/ batch # <<>>) => drained
    /\ drained => getres > 0

\* C14 witness: the wait reported a listener while a message was queued; the
\* message has been dispatched and the listener's callback is running.
C14_Witness ==
    /\ pc = "listener_cb"
    /\ drained
    /\ msgLog # <<>>
    /\ nMsgs = Len(msgLog)
    /\ cbLog = <<0>>

\* ------------------------------------------------------------ C15
\* C15: once the drain has read the quit signal or an error, run has returned:
\* in that last iteration no listener was called, although the wait may have
\* reported one, and no idle batch was taken, although idle work may be
\* pending; the quit signal was not dispatched, nor were the messages still in
\* the queue, those behind it.
C15_QuitReturnsAtOnce ==
    /\ getres <= 0 => pc = "returned"
    /\ pc = "returned" =>
          /\ getres <= 0
          /\ iterCbs = <<>> /\ batch = <<>> /\ ~drained
          /\ Range(msgq) \cap Range(msgLog) = {}
          /\ WM_QUIT \notin Range(msgLog)

\* C15 witness: run has returned on the quit signal with a listener reported by
\* the wait, idle work pending and a message queued behind the quit signal.
C15_Witness ==
    /\ pc = "returned"
    /\ getres = 0
    /\ IsListener(res, Len(handles))
    /\ idle # <<>>
    /\ msgq # <<>>
    /\ cbLog = <<>> /\ idleLog = <<>> /\ msgLog = <<>>

\* ------------------------------------------------------------ C16
\* Run is past the wait of the current iteration.
AfterWait == pc \in {"drain", "dispatch_msg", "check", "listener_cb", "idle_loop"}

\* C16: the set of handles is taken afresh at the start of every iteration: each
\* wait is on the handles of all the listeners registered by then, those
\* registered during earlier iterations included, and a listener registered
\* after the wait of an iteration (by a message handler or a callback) is behind
\* the snapshot that iteration goes on to use, not in it.
C16_SnapshotEachIteration ==
    /\ pc = "wait" => handles = listeners
    /\ AfterWait => IsPrefix(handles, listeners)

\* C16 witness: run waits on a listener that a message handler or an idle
\* callback registered during an earlier iteration.
C16_Witness ==
    /\ pc = "wait"
    /\ preRun = 1
    /\ handles = <<1, 2>>
    /\ cbLog = <<0>>

C18_QuitIsCooperative ==
    /\ pc = "returned" => idles = <<>> /\ getres <= 0
    /\ pc = "panicked" => cbOp.kind # "request_quit"
    /\ (nQuits > 0 /\ pc = "top" /\ batch # <<>>) => LastN(idleLog, Len(batch)) = batch
    /\ pc \in {"check", "listener_cb"} => nQuits = 0
    /\ (nQuits > 0 /\ pc \in {"wait", "drain", "dispatch_msg"}) =>
          iterCbs = <<>> /\ batch = <<>>
    /\ waitsSinceQuit <= 1

\* C18 witness: the first callback of a batch of two called request_quit (no
\* quit is pending when a batch is taken); the second was called all the same,
\* and the quit message waits for the next drain.
C18_Witness ==
    /\ pc = "top"
    /\ batch = <<1, 2>>
    /\ idleLog = <<1, 2>>
    /\ nQuits = 1
    /\ WM_QUIT \in Range(msgq)
    /\ cbOp.kind # "request_quit"

\* ------------------------------------------------------------ C19
\* C19: listeners are only ever appended, so from the wait to the end of an
\* iteration the live list of listeners has the iteration's snapshot as a
\* prefix; when the wait has reported a listener, its index is within the live
\* list and the listener there is the one whose handle is the snapshot's entry
\* at that index, also when message handlers of the drain have registered more
\* listeners since the snapshot; the indexing of line 103 never panics (run
\* panics only inside the callback of the listener reported).
C19_IndexSelectsReportedListener ==
    /\ AfterWait => IsPrefix(handles, listeners)
    /\ (pc \in {"check", "listener_cb"} /\ IsListener(res, Len(handles))) =>
          LET ix == res - WAIT_OBJECT_0
          IN  /\ ix + 1 <= Len(listeners)
              /\ listeners[ix + 1] = handles[ix + 1]
    /\ pc = "listener_cb" => cbLog[Len(cbLog)] = res - WAIT_OBJECT_0
    /\ pc = "panicked" => iterCbs = <<res - WAIT_OBJECT_0>>

\* C19 witness: a message handler of the drain registered a second listener
\* after the snapshot, and the callback of the listener reported is running.
C19_Witness ==
    /\ pc = "listener_cb"
    /\ handles = <<1>>
    /\ listeners = <<1, 2>>
    /\ msgLog # <<>>
    /\ cbLog = <<0>>

====
